---------------------------- MODULE Spec2Model ----------------------------
(***************************************************************************)
(* Twin Health FAQ chat widget: the knowledge-base load lifecycle and the  *)
(* three findBestMatch variants of the repository                          *)
(*   - the token-weight matcher   (src/scripts.js, src/unnamed/part_000),  *)
(*   - the weighted matcher       (src/unnamed/part_001),                  *)
(*   - the substring matcher      (src/unnamed/part_002),                  *)
(* the chats, tabs, messages and reply timers of src/scripts.js, and the   *)
(* send and reply steps of src/unnamed/part_001 and src/unnamed/part_002.  *)
(*                                                                         *)
(* A JavaScript string is a sequence of one-character strings; the value   *)
(* undefined is the sequence Undefined, which no string equals.  A         *)
(* knowledge-base entry is a record that has a field exactly when the      *)
(* JSON object has the property.  Scores of the weighted matcher are exact *)
(* fractions [num, den] in lowest terms; scores of the substring matcher   *)
(* are counted in tenths.                                                  *)
(***************************************************************************)
EXTENDS Integers, Sequences, FiniteSets, TLC

VARIABLES
    variant,        \* which script the page runs
    loadPhase,      \* position of loadKnowledgeBase
    kbEntries,      \* let kbEntries = []
    kbLoaded,       \* let kbLoaded = false
    chats,          \* let chats = {}   (sequence of chats in key order)
    activeChatId,   \* let activeChatId = null
    storage,        \* localStorage items twinHealthChats / activeChatId
    lastOp,         \* the step that ran last: load, a call, handler, reply
    last,           \* the latest findBestMatch call: inputs and result
    prev,           \* an earlier findBestMatch call, kept for comparison
    clock,          \* the latest value Date.now() returned (0: not read yet)
    timers,         \* the pending setTimeout callbacks of processMessage
    sends,          \* how many messages processMessage has accepted
    display         \* the messages shown in #chatMessages, in document order

vars == <<variant, loadPhase, kbEntries, kbLoaded, chats, activeChatId,
          storage, lastOp, last, prev, clock, timers, sends, display>>

\* the state of the pending replies
replyVars == <<timers, sends>>

-----------------------------------------------------------------------------
(* Characters and JavaScript string primitives                             *)

LowerSeq == <<"a","b","c","d","e","f","g","h","i","j","k","l","m",
              "n","o","p","q","r","s","t","u","v","w","x","y","z">>

UpperSeq == <<"A","B","C","D","E","F","G","H","I","J","K","L","M",
              "N","O","P","Q","R","S","T","U","V","W","X","Y","Z">>

Range(s) == {s[i] : i \in DOMAIN s}

LowerLetters == Range(LowerSeq)
UpperLetters == Range(UpperSeq)
Digits == {"0","1","2","3","4","5","6","7","8","9"}

\* the regular expression class [a-z0-9]
IsAlnum(c) == c \in LowerLetters \cup Digits

\* the regular expression class \w
IsWordChar(c) == c \in LowerLetters \cup UpperLetters \cup Digits \cup {"_"}

\* the regular expression class \s
IsSpace(c) == c \in {" ", "\t", "\n", "\r"}

Undefined == <<"undefined">>

\* JavaScript truthiness of a string-or-undefined value
Truthy(v) == v # Undefined /\ v # <<>>

\* (text || '')
OrEmpty(v) == IF Truthy(v) THEN v ELSE <<>>

\* entry.f : undefined when the object has no such property
Field(entry, f) == IF f \in DOMAIN entry THEN entry[f] ELSE Undefined

LowerChar(c) ==
    IF c \in UpperLetters
    THEN LowerSeq[CHOOSE i \in DOMAIN UpperSeq : UpperSeq[i] = c]
    ELSE c

\* String.prototype.toLowerCase
toLowerCase(s) == [i \in 1..Len(s) |-> LowerChar(s[i])]

\* String.prototype.trim
trim(s) ==
    LET keep == {i \in 1..Len(s) : ~IsSpace(s[i])}
    IN  IF keep = {} THEN <<>>
        ELSE SubSeq(s, CHOOSE i \in keep : \A j \in keep : i <= j,
                       CHOOSE i \in keep : \A j \in keep : i >= j)

\* String.prototype.includes
includes(hay, needle) ==
    \E i \in 0..(Len(hay) - Len(needle)) :
        SubSeq(hay, i + 1, i + Len(needle)) = needle

\* Array.prototype.includes on an array of strings
arrayIncludes(arr, w) == \E i \in 1..Len(arr) : arr[i] = w

\* .replace(/[^\w\s]/g, ' ')
ReplacePunctuation(s) ==
    [i \in 1..Len(s) |->
        IF IsWordChar(s[i]) \/ IsSpace(s[i]) THEN s[i] ELSE " "]

\* .replace(/\s+/g, ' ') : every maximal run of whitespace becomes one space
RECURSIVE CollapseFrom(_, _)
CollapseFrom(s, i) ==
    IF i > Len(s) THEN <<>>
    ELSE IF IsSpace(s[i])
         THEN IF i > 1 /\ IsSpace(s[i-1])
              THEN CollapseFrom(s, i + 1)
              ELSE <<" ">> \o CollapseFrom(s, i + 1)
         ELSE <<s[i]>> \o CollapseFrom(s, i + 1)

CollapseWhitespace(s) == CollapseFrom(s, 1)

\* .split(' ') : "" splits into one empty string
RECURSIVE split(_)
split(s) ==
    LET sp == {i \in 1..Len(s) : s[i] = " "}
    IN  IF sp = {} THEN <<s>>
        ELSE LET i == CHOOSE k \in sp : \A j \in sp : k <= j
             IN  <<SubSeq(s, 1, i - 1)>> \o split(SubSeq(s, i + 1, Len(s)))

\* end of the maximal run of [a-z0-9] that starts at i
RECURSIVE RunEnd(_, _)
RunEnd(s, i) ==
    IF i < Len(s) /\ IsAlnum(s[i+1]) THEN RunEnd(s, i + 1) ELSE i

\* \b before position i / after position j, next to a character of [a-z0-9]
BoundaryBefore(s, i) == i = 1 \/ ~IsWordChar(s[i-1])
BoundaryAfter(s, j) == j = Len(s) \/ ~IsWordChar(s[j+1])

\* s.match(/\b[a-z0-9]+\b/g) || []  and, with apostrophe = TRUE,
\* s.match(/\b[a-z0-9]+(?:'[a-z0-9]+)?\b/g) || []
RECURSIVE MatchTokens(_, _, _)
MatchTokens(s, i, apostrophe) ==
    IF i > Len(s) THEN <<>>
    ELSE IF IsAlnum(s[i]) /\ BoundaryBefore(s, i)
    THEN LET j == RunEnd(s, i)
             group == /\ apostrophe
                      /\ j + 2 <= Len(s)
                      /\ s[j+1] = "'"
                      /\ IsAlnum(s[j+2])
             k == IF group THEN RunEnd(s, j + 2) ELSE j
         IN  IF group /\ BoundaryAfter(s, k)
             THEN <<SubSeq(s, i, k)>> \o MatchTokens(s, k + 1, apostrophe)
             ELSE IF BoundaryAfter(s, j)
             THEN <<SubSeq(s, i, j)>> \o MatchTokens(s, j + 1, apostrophe)
             ELSE MatchTokens(s, i + 1, apostrophe)
    ELSE MatchTokens(s, i + 1, apostrophe)

\* Array.prototype.flatMap / concatenation of an array of arrays
RECURSIVE Flatten(_)
Flatten(ss) == IF ss = <<>> THEN <<>> ELSE Head(ss) \o Flatten(Tail(ss))

-----------------------------------------------------------------------------
(* Exact fractions                                                         *)

RECURSIVE GCD(_, _)
GCD(a, b) == IF b = 0 THEN a ELSE GCD(b, a % b)

Frac(n, d) == LET g == GCD(n, d) IN [num |-> n \div g, den |-> d \div g]
FracAdd(p, q) == Frac(p.num * q.den + q.num * p.den, p.den * q.den)
FracTimes(p, k) == Frac(p.num * k, p.den)
FracGT(p, q) == p.num * q.den > q.num * p.den
FracGE(p, q) == p.num * q.den >= q.num * p.den
Whole(n) == Frac(n, 1)

-----------------------------------------------------------------------------
(* Results of findBestMatch                                                *)

Null == [null |-> TRUE]

\* an uncaught TypeError leaving findBestMatch
TypeError == [threw |-> "TypeError"]

\* `${v}` in a template literal
Interpolate(v) ==
    IF v = Undefined THEN <<"u","n","d","e","f","i","n","e","d">> ELSE v

-----------------------------------------------------------------------------
(* Token-weight matcher: src/scripts.js (the same code is in part_000)     *)

tokenize(text) == MatchTokens(toLowerCase(OrEmpty(text)), 1, FALSE)

\* (entry.tags || []).flatMap(t => tokenize(t))
TagTokens(entry) ==
    IF "tags" \in DOMAIN entry
    THEN Flatten([i \in 1..Len(entry.tags) |-> tokenize(entry.tags[i])])
    ELSE <<>>

CountIn(msgTokens, tokens) ==
    Cardinality({i \in 1..Len(msgTokens) : arrayIncludes(tokens, msgTokens[i])})

\* mutant: a token of the message counts once however often it occurs
EntryScoreTokens_OncePerToken(msgTokens, entry) ==
    LET qTokens == tokenize(Field(entry, "question"))
        aTokens == tokenize(Field(entry, "answer"))
        tagTokens == TagTokens(entry)
        categoryTokens == tokenize(OrEmpty(Field(entry, "category")))
        In(tokens) == Cardinality(Range(msgTokens) \cap Range(tokens))
    IN  3 * In(qTokens) + 1 * In(aTokens) + 2 * In(tagTokens)
          + 2 * In(categoryTokens)

\* the body of the for loop over kbEntries, up to the comparison
EntryScoreTokens(msgTokens, entry) ==
    LET qTokens == tokenize(Field(entry, "question"))
        aTokens == tokenize(Field(entry, "answer"))
        tagTokens == TagTokens(entry)
        categoryTokens == tokenize(OrEmpty(Field(entry, "category")))
    IN  3 * CountIn(msgTokens, qTokens)
          + 1 * CountIn(msgTokens, aTokens)
          + 2 * CountIn(msgTokens, tagTokens)
          + 2 * CountIn(msgTokens, categoryTokens)

ThresholdTokens == 1

DefaultSourceTokens == <<"T","w","i","n"," ","H","e","a","l","t","h">>

\* if (score > bestScore) { bestScore = score; best = entry; }
RECURSIVE LoopTokens(_, _, _, _, _)
LoopTokens(entries, msgTokens, i, best, bestScore) ==
    IF i > Len(entries) THEN [best |-> best, bestScore |-> bestScore]
    ELSE LET score == EntryScoreTokens(msgTokens, entries[i])
         IN  IF score > bestScore
             THEN LoopTokens(entries, msgTokens, i + 1, i, score)
             ELSE LoopTokens(entries, msgTokens, i + 1, best, bestScore)

\* the locals best (as an index into kbEntries, 0 for null) and bestScore
\* when the loop ends
BestTokens(userMessage, entries) ==
    LoopTokens(entries, tokenize(userMessage), 1, 0, 0)

MatchTokensVariant(userMessage, entries, loaded) ==
    IF ~loaded \/ ~Truthy(userMessage) THEN Null
    ELSE LET r == BestTokens(userMessage, entries)
         IN  IF r.bestScore >= ThresholdTokens /\ r.best # 0
             THEN LET best == entries[r.best]
                      src == IF Truthy(Field(best, "source"))
                             THEN best.source ELSE DefaultSourceTokens
                  IN  [text |-> Interpolate(Field(best, "answer"))
                                \o <<"\n", "\n", "<em>Source: ">>
                                \o src \o <<"</em>">>]
             ELSE Null

-----------------------------------------------------------------------------
(* Weighted matcher: src/unnamed/part_001                                  *)

\* mutant: the final trim() left out
normalizeText_NoTrim(text) ==
    CollapseWhitespace(ReplacePunctuation(toLowerCase(OrEmpty(text))))

normalizeText(text) ==
    trim(CollapseWhitespace(ReplacePunctuation(toLowerCase(OrEmpty(text)))))

stopWords == {
    <<"a">>, <<"a","n">>, <<"a","n","d">>, <<"a","r","e">>, <<"a","s">>,
    <<"a","t">>, <<"b","e">>, <<"b","y">>, <<"f","o","r">>,
    <<"f","r","o","m">>, <<"h","a","s">>, <<"h","e">>, <<"i","n">>,
    <<"i","s">>, <<"i","t">>, <<"i","t","s">>, <<"o","f">>, <<"o","n">>,
    <<"t","h","a","t">>, <<"t","h","e">>, <<"t","o">>, <<"w","a","s">>,
    <<"w","i","l","l">>, <<"w","i","t","h">>, <<"c","a","n">>, <<"d","o">>,
    <<"d","o","e","s">>, <<"w","h","a","t">>, <<"h","o","w">>,
    <<"w","h","y">>, <<"w","h","e","n">>, <<"w","h","e","r","e">>,
    <<"w","h","o">>, <<"i">>, <<"m","y">>, <<"m","e">>, <<"y","o","u">>,
    <<"y","o","u","r">> }

\* mutant: words of two characters are kept
KeepWord_AtLeastTwo(word) == Len(word) >= 2 /\ word \notin stopWords

\* word => word.length > 2 && !stopWords.has(word)
KeepWord(word) == Len(word) > 2 /\ word \notin stopWords

extractKeywords(text) == SelectSeq(split(normalizeText(text)), KeepWord)

\* mutant: Method 1 (the containment test) left out
calculateSimilarity_NoContainment(userText, kbText) ==
    LET userWords == extractKeywords(userText)
        kbWords == extractKeywords(kbText)
        matchCount == CountIn(userWords, kbWords)
    IN  IF Len(userWords) = 0 THEN Whole(0)
        ELSE Frac(matchCount * 80, Len(userWords))

calculateSimilarity(userText, kbText) ==
    LET userNorm == normalizeText(userText)
        kbNorm == normalizeText(kbText)
    IN  IF includes(kbNorm, userNorm) \/ includes(userNorm, kbNorm)
        THEN Whole(100)
        ELSE LET userWords == extractKeywords(userText)
                 kbWords == extractKeywords(kbText)
                 matchCount == CountIn(userWords, kbWords)
             IN  IF Len(userWords) = 0 THEN Whole(0)
                 ELSE Frac(matchCount * 80, Len(userWords))

\* if (entry.tags && Array.isArray(entry.tags))
TagsGuard001(entry) == "tags" \in DOMAIN entry

\* mutant: the category is scored whether or not the entry has one
CategoryGuard001_Always(entry) == TRUE

\* if (entry.category)
CategoryGuard001(entry) == Truthy(Field(entry, "category"))

\* for (const tag of entry.tags) throws when entry.tags is not iterable
EntryThrows001(entry) == TagsGuard001(entry) /\ "tags" \notin DOMAIN entry

RECURSIVE SumTagSim(_, _, _)
SumTagSim(userMessage, tags, i) ==
    IF i > Len(tags) THEN Whole(0)
    ELSE FracAdd(FracTimes(calculateSimilarity(userMessage, tags[i]), 3),
                 SumTagSim(userMessage, tags, i + 1))

\* Score 2: tag matching (weight 3x)
TagsScore001(userMessage, entry) ==
    IF TagsGuard001(entry) /\ "tags" \in DOMAIN entry
    THEN SumTagSim(userMessage, entry.tags, 1)
    ELSE Whole(0)

\* Score 3: category matching (weight 2x)
CategoryScore001(userMessage, entry) ==
    IF CategoryGuard001(entry)
    THEN FracTimes(calculateSimilarity(userMessage, Field(entry, "category")), 2)
    ELSE Whole(0)

\* the body of the for loop over kbEntries, up to the comparison
EntryScore001(userMessage, entry) ==
    FracAdd(FracAdd(FracTimes(calculateSimilarity(userMessage,
                                                  Field(entry, "question")), 5),
                    TagsScore001(userMessage, entry)),
            FracAdd(CategoryScore001(userMessage, entry),
                    calculateSimilarity(userMessage, Field(entry, "answer"))))

\* mutant: >= in place of >, so that a later entry with an equal score wins
RECURSIVE Loop001_LastWins(_, _, _, _, _)
Loop001_LastWins(entries, userMessage, i, best, bestScore) ==
    IF i > Len(entries) THEN [best |-> best, bestScore |-> bestScore]
    ELSE LET score == EntryScore001(userMessage, entries[i])
         IN  IF FracGE(score, bestScore)
             THEN Loop001_LastWins(entries, userMessage, i + 1, i, score)
             ELSE Loop001_LastWins(entries, userMessage, i + 1, best, bestScore)

\* if (score > bestScore) { bestScore = score; bestMatch = entry; }
RECURSIVE Loop001(_, _, _, _, _)
Loop001(entries, userMessage, i, best, bestScore) ==
    IF i > Len(entries) THEN [best |-> best, bestScore |-> bestScore]
    ELSE LET score == EntryScore001(userMessage, entries[i])
         IN  IF FracGT(score, bestScore)
             THEN Loop001(entries, userMessage, i + 1, i, score)
             ELSE Loop001(entries, userMessage, i + 1, best, bestScore)

\* the locals bestMatch (as an index into kbEntries, 0 for null) and
\* bestScore when the loop ends
Best001(userMessage, entries) == Loop001(entries, userMessage, 1, 0, Whole(0))

threshold == 50

DefaultSource001 ==
    <<"T","w","i","n"," ","H","e","a","l","t","h"," ",
      "K","n","o","w","l","e","d","g","e"," ","B","a","s","e">>

\* mutant: the length test on the trimmed message left out
Guard001_NoTrim(userMessage, loaded) == ~loaded \/ ~Truthy(userMessage)

\* if (!kbLoaded || !userMessage || userMessage.trim().length < 2)
Guard001(userMessage, loaded) ==
    ~loaded \/ ~Truthy(userMessage) \/ Len(trim(userMessage)) < 2

\* mutant: the source is copied without the default
Source001_NoDefault(bestMatch) == Field(bestMatch, "source")

\* bestMatch.source || 'Twin Health Knowledge Base'
Source001(bestMatch) ==
    IF Truthy(Field(bestMatch, "source"))
    THEN bestMatch.source ELSE DefaultSource001

\* mutant: > in place of >=
Accept001_Strict(r) == FracGT(r.bestScore, Whole(threshold)) /\ r.best # 0

\* if (bestScore >= threshold && bestMatch)
Accept001(r) == FracGE(r.bestScore, Whole(threshold)) /\ r.best # 0

Match001(userMessage, entries, loaded) ==
    IF Guard001(userMessage, loaded) THEN Null
    ELSE IF \E i \in 1..Len(entries) : EntryThrows001(entries[i])
    THEN TypeError
    ELSE LET r == Best001(userMessage, entries)
         IN  IF Accept001(r)
             THEN [answer |-> Field(entries[r.best], "answer"),
                   source |-> Source001(entries[r.best]),
                   score |-> r.bestScore]
             ELSE Null

-----------------------------------------------------------------------------
(* Substring matcher: src/unnamed/part_002 (scores in tenths)              *)

tokenize002(text) == MatchTokens(toLowerCase(OrEmpty(text)), 1, TRUE)

\* (entry.tags || []).map(t => t.toLowerCase())
LowerTags002(entry) ==
    IF "tags" \in DOMAIN entry
    THEN [i \in 1..Len(entry.tags) |-> toLowerCase(entry.tags[i])]
    ELSE <<>>

\* const q = (entry.question || '').toLowerCase()
Question002(entry) == toLowerCase(OrEmpty(Field(entry, "question")))

\* mutant: the bonus is given in both directions and to short messages
Contained002_BothWays(message, entry) ==
    \/ includes(Question002(entry), message)
    \/ includes(message, Question002(entry))

\* if (q.includes(message) && message.length > 3) score += 5
Contained002(message, entry) ==
    includes(Question002(entry), message) /\ Len(message) > 3

\* if (entry.source) score += 0.1
SourceBonus002(entry) == IF Truthy(Field(entry, "source")) THEN 1 ELSE 0

\* the score of the entry before the source bonus is added
ScoreBeforeSource002(message, entry) ==
    LET tags == LowerTags002(entry)
        msgTokens == tokenize002(message)
        qTokens == tokenize002(Question002(entry))
    IN  (IF Contained002(message, entry) THEN 50 ELSE 0)
          + 20 * Cardinality({i \in 1..Len(tags) : includes(message, tags[i])})
          + 7 * CountIn(msgTokens, qTokens)

\* the body of the for loop over kbEntries, up to the comparison;
\* message is the lower-cased, trimmed user message
EntryScore002(message, entry) ==
    ScoreBeforeSource002(message, entry) + SourceBonus002(entry)

RECURSIVE Loop002(_, _, _, _, _)
Loop002(entries, message, i, best, bestScore) ==
    IF i > Len(entries) THEN [best |-> best, bestScore |-> bestScore]
    ELSE LET score == EntryScore002(message, entries[i])
         IN  IF score > bestScore
             THEN Loop002(entries, message, i + 1, i, score)
             ELSE Loop002(entries, message, i + 1, best, bestScore)

\* const message = (userMessage || '').toLowerCase().trim()
Message002(userMessage) == trim(toLowerCase(OrEmpty(userMessage)))

Best002(userMessage, entries) ==
    Loop002(entries, Message002(userMessage), 1, 0, 0)

Threshold002 == 10

\* mutant: the threshold is written as 10.0 instead of 1.0
Accept002_TenfoldThreshold(r) == r.bestScore >= 10 * Threshold002 /\ r.best # 0

\* if (bestScore >= 1.0 && best)
Accept002(r) == r.bestScore >= Threshold002 /\ r.best # 0

Unknown002 == <<"u","n","k","n","o","w","n">>

\* best.source || 'unknown' , best.last_updated || 'unknown'
OrUnknown002(v) == IF Truthy(v) THEN v ELSE Unknown002

Match002(userMessage, entries, loaded) ==
    IF Message002(userMessage) = <<>> \/ ~loaded \/ Len(entries) = 0
    THEN Null
    ELSE LET r == Best002(userMessage, entries)
         IN  IF Accept002(r)
             THEN LET best == entries[r.best]
                  IN  [text |-> Interpolate(Field(best, "answer"))
                                \o <<"\n", "\n", "Source: ">>
                                \o OrUnknown002(Field(best, "source"))
                                \o <<" (updated ">>
                                \o OrUnknown002(Field(best, "last_updated"))
                                \o <<")">>]
             ELSE Null

-----------------------------------------------------------------------------
(* Bounded inputs: the knowledge-base documents the server may hold and    *)
(* the messages a user may type                                            *)

MaxEntries == 2

qWhatIsTwin == <<"W","h","a","t"," ","i","s"," ","T","w","i","n","?">>        \* "What is Twin?"
qTwinLower == <<"t","w","i","n">>          \* "twin"
qTwinUpper == <<"T","w","i","n">>          \* "Twin"
qTwinCare == <<"t","w","i","n"," ","c","a","r","e">>       \* "twin care"
qShort == <<"Q">>                             \* "Q"

eFaq == [question |-> qWhatIsTwin,
         answer |-> <<"T","w","i","n"," ","i","s"," ","c","a","r","e",".">>,
         tags |-> <<<<"t","w","i","n">>, <<"f","a","q">>>>,
         category |-> <<"g","e","n","e","r","a","l">>,
         source |-> <<"F","A","Q">>]

\* no tags, no category, no source
eBare == [question |-> qTwinLower, answer |-> <<"Y","e","s",".">>]

\* empty category and source
eTie == [question |-> qTwinUpper, answer |-> <<"N","o",".">>,
         category |-> <<>>, source |-> <<>>]

\* empty tags array
eCare == [question |-> qTwinCare, answer |-> <<"M","a","y","b","e",".">>, tags |-> <<>>]

\* a question of one character
eShort == [question |-> qShort, answer |-> qTwinCare]

EntryPool == {eFaq, eBare, eTie, eCare, eShort}

KnowledgeBases == UNION {[1..n -> EntryPool] : n \in 0..MaxEntries}

\* what response.json() may resolve with: null, an object without an
\* entries array, an object with one
Documents ==
    {[json |-> "null"], [json |-> "object"]}
        \cup {[json |-> "object", entries |-> kb] : kb \in KnowledgeBases}

mEmpty == <<>>
mBlank == <<" ", " ">>
mEightWords == <<"r","e","d"," ","r","e","d"," ","r","e","d"," ","r","e","d"," ","r","e","d"," ","r","e","d"," ","r","e","d"," ","t","w","i","n">>
    \* "red red red red red red red twin"

mTwinTwice == <<"t","w","i","n"," ","t","w","i","n">>        \* "twin twin"

mHigh == <<"h","i","g","h">>                                \* "high"

Messages ==
    {mEmpty, mBlank, qShort, qTwinLower, qWhatIsTwin, mEightWords, mTwinTwice,
     mHigh}

\* the worked examples: one entry about Twin Health, with and without its
\* answer, and entries whose scores differ by the source bonus only
qTwinHealth == <<"W","h","a","t"," ","i","s"," ","T","w","i","n"," ","H","e","a","l","t","h","?">>
    \* "What is Twin Health?"
tTwinHealth == <<"t","w","i","n"," ","h","e","a","l","t","h">>      \* "twin health"
tOverview == <<"o","v","e","r","v","i","e","w">>                   \* "overview"
aTwinHealth == <<"T","w","i","n"," ","H","e","a","l","t","h"," ","i","s"," ","a"," ","m","e","t","a","b","o","l","i","c"," ","c","a","r","e"," ","p","l","a","t","f","o","r","m",".">>
    \* "Twin Health is a metabolic care platform."

eTwinHealth == [question |-> qTwinHealth, answer |-> aTwinHealth,
                tags |-> <<tTwinHealth, tOverview>>, source |-> <<"F","A","Q">>]

eNoAnswer == [question |-> qTwinHealth,
              tags |-> <<tTwinHealth, tOverview>>, source |-> <<"F","A","Q">>]

\* three question tokens, no tags, no source
eThreeTokens == [question |-> qWhatIsTwin, answer |-> <<"A",".">>]

\* one tag and a source
eTagged == [question |-> <<"C","a","r","e">>, answer |-> <<"B",".">>,
            tags |-> <<qTwinLower>>, source |-> <<"F","A","Q">>]

ExamplePool == {eTwinHealth, eNoAnswer, eThreeTokens, eTagged, eBare}

ExampleBases == UNION {[1..n -> ExamplePool] : n \in 0..MaxEntries}

ExampleDocuments == {[json |-> "object", entries |-> kb] : kb \in ExampleBases}

mPizza == <<"p","i","z","z","a"," ","r","e","c","i","p","e">>       \* "pizza recipe"
mPunctuation == <<"?","?">>                                         \* "??"
mIsTwinWhat == <<"i","s"," ","t","w","i","n"," ","w","h","a","t">>  \* "is twin what"

ExampleMessages ==
    {qTwinHealth, tTwinHealth, mPizza, mPunctuation, mIsTwinWhat, qTwinLower}

\* the texts given to normalizeText and extractKeywords: undefined and the
\* concatenations of up to MaxPieces pieces
MaxPieces == 3

TextPieces ==
    {<<"T","h","e">>, <<"t","w","i","n">>, <<"C","a","r","e">>, <<"o","k">>,
     <<"a","_","b">>, <<"9">>, <<" ">>, <<"\t">>, <<"?">>, <<"-">>}

Texts ==
    {Undefined}
        \cup {Flatten(p) : p \in UNION {[1..n -> TextPieces] : n \in 0..MaxPieces}}

\* the texts given to calculateSimilarity: undefined, the empty string, a
\* lone question mark and up to MaxWords words separated by single spaces
MaxWords == 3

WordPool == {<<"T","w","i","n">>, <<"c","a","r","e">>, <<"d","i","e","t">>,
             <<"t","h","e">>}

RECURSIVE Spaced(_, _)
Spaced(ws, i) ==
    IF i > Len(ws) THEN <<>>
    ELSE IF i = Len(ws) THEN ws[i]
    ELSE ws[i] \o <<" ">> \o Spaced(ws, i + 1)

SimilarityTexts ==
    {Undefined, <<"?">>}
        \cup {Spaced(ws, 1) : ws \in UNION {[1..n -> WordPool] : n \in 0..MaxWords}}

\* the inputs of findBestMatch: a message, kbEntries and kbLoaded
Calls ==
    (Messages \X KnowledgeBases \X BOOLEAN)
        \cup (ExampleMessages \X ExampleBases \X BOOLEAN)

Variants == {"scripts", "part_000", "part_001", "part_002"}

TokenVariants == {"scripts", "part_000"}

-----------------------------------------------------------------------------
(* The three matchers, evaluated once for every bounded input.  A function *)
(* constructor is evaluated anew at each application; merged with itself   *)
(* by @@ it becomes a table, so that a call is a look-up.                  *)

Tabulated(f) == f @@ f

TokensTable ==
    Tabulated([c \in Calls |->
        [loop |-> BestTokens(c[1], c[2]),
         result |-> MatchTokensVariant(c[1], c[2], c[3])]])

Table001 ==
    Tabulated([c \in Calls |->
        [loop |-> Best001(c[1], c[2]),
         result |-> Match001(c[1], c[2], c[3])]])

Table002 ==
    Tabulated([c \in Calls |->
        [loop |-> Best002(c[1], c[2]),
         result |-> Match002(c[1], c[2], c[3])]])

-----------------------------------------------------------------------------
(* Chats and localStorage                                                  *)

MaxTime == 1

initialBotMessage ==
    [text |-> <<"Hello! I'm your Twin Health assistant. I can help you learn about reversing diabetes naturally using our Whole Body Digital Twin technology. How can I assist you now?">>,
     user |-> FALSE,
     isWelcome |-> TRUE]

DigitSeq == <<"1","2","3","4","5","6","7","8","9">>

\* `Chat ${Object.keys(chats).length + 0}`
ChatName(n) == <<"C","h","a","t"," ">> \o <<DigitSeq[n]>>

ChatIds(cs) == {cs[i].id : i \in 1..Len(cs)}

\* chats[id] = [...] : a new key goes last, an existing key keeps its place
PutChat(cs, chat) ==
    IF chat.id \in ChatIds(cs)
    THEN [i \in 1..Len(cs) |-> IF cs[i].id = chat.id THEN chat ELSE cs[i]]
    ELSE Append(cs, chat)

\* JSON.stringify(chats): each chat is an array, whose name property is
\* not serialised
Stringify(cs) == [i \in 1..Len(cs) |-> [id |-> cs[i].id, msgs |-> cs[i].msgs]]

EmptyStorage == [items |-> {}, twinHealthChats |-> <<>>, activeChatId |-> 0]

saveToStorage(cs, active, st) ==
    [items |-> st.items \cup {"twinHealthChats"}
                 \cup (IF active # 0 THEN {"activeChatId"} ELSE {}),
     twinHealthChats |-> Stringify(cs),
     activeChatId |-> IF active # 0 THEN active ELSE st.activeChatId]

\* loadFromStorage: the chats and activeChatId it leaves
LoadedChats(cs, st) ==
    IF "twinHealthChats" \in st.items THEN st.twinHealthChats ELSE cs

LoadedActive(cs, active, st) ==
    IF "activeChatId" \in st.items
       /\ st.activeChatId \in ChatIds(LoadedChats(cs, st))
    THEN st.activeChatId ELSE active

\* what renderMessages() shows: the messages of chats[activeChatId], each
\* with its text and whether it is a user message
Shown(msgs) == [k \in 1..Len(msgs) |-> [text |-> msgs[k].text, user |-> msgs[k].user]]

MessagesOf(cs, id) == (CHOOSE c \in Range(cs) : c.id = id).msgs

Rendered(cs, active) ==
    IF active # 0 /\ active \in ChatIds(cs) THEN Shown(MessagesOf(cs, active))
    ELSE <<>>

\* createNewChat at time now, then saveToStorage
NewChat(cs, now) ==
    LET added == PutChat(cs, [id |-> now,
                              msgs |-> <<[initialBotMessage EXCEPT !.isWelcome = TRUE]>>])
    IN  [i \in 1..Len(added) |->
            IF added[i].id = now
            THEN [id |-> now, msgs |-> added[i].msgs, name |-> ChatName(Len(added))]
            ELSE added[i]]

\* the part of the initialisation that follows loadKnowledgeBase():
\* loadFromStorage(), then createNewChat() when there is no usable chat
InitChats(now) ==
    LET cs == LoadedChats(chats, storage)
        active == LoadedActive(chats, activeChatId, storage)
    IN  IF Len(cs) = 0 \/ active = 0 \/ active \notin ChatIds(cs)
        THEN /\ now >= clock
             /\ clock' = now
             /\ chats' = NewChat(cs, now)
             /\ activeChatId' = now
             /\ storage' = saveToStorage(NewChat(cs, now), now, storage)
             /\ display' = Rendered(NewChat(cs, now), now)
        ELSE /\ chats' = cs
             /\ activeChatId' = active
             /\ display' = Rendered(cs, active)
             /\ UNCHANGED <<storage, clock>>

-----------------------------------------------------------------------------
(* The state machine                                                       *)

NoCall == [none |-> TRUE]

Init ==
    /\ variant \in Variants
    /\ loadPhase = "notStarted"
    /\ kbEntries = <<>>
    /\ kbLoaded = FALSE
    /\ chats = <<>>
    /\ activeChatId = 0
    /\ storage = EmptyStorage
    /\ lastOp = "none"
    /\ last = NoCall
    /\ prev = NoCall
    /\ clock = 0
    /\ timers = <<>>
    /\ sends = 0
    /\ display = <<>>

\* mutant: the catch block reports the knowledge base as loaded
LoadFailed_SetsLoaded ==
    /\ kbLoaded' = TRUE
    /\ loadPhase' = "failed"
    /\ UNCHANGED kbEntries

\* the catch block of loadKnowledgeBase
LoadFailed ==
    /\ kbLoaded' = FALSE
    /\ loadPhase' = "failed"
    /\ UNCHANGED kbEntries

\* kbEntries = Array.isArray(data.entries) ? data.entries : []; kbLoaded = true
LoadSucceeded(data) ==
    /\ kbEntries' = IF "entries" \in DOMAIN data THEN data.entries ELSE <<>>
    /\ kbLoaded' = TRUE
    /\ loadPhase' = "succeeded"

\* scripts.js awaits loadKnowledgeBase() before it loads the chats;
\* part_000 and part_001 do not wait; part_002 has no chats
AfterLoad(now) ==
    IF variant = "scripts" THEN InitChats(now)
    ELSE UNCHANGED <<chats, activeChatId, storage, clock, display>>

\* the 'load' handler (scripts.js, part_002) or initializeApp (part_000,
\* part_001), up to the first await of loadKnowledgeBase
StartPage(now) ==
    /\ loadPhase = "notStarted"
    /\ loadPhase' = "fetching"
    /\ IF variant \in {"part_000", "part_001"} THEN InitChats(now)
       ELSE UNCHANGED <<chats, activeChatId, storage, clock, display>>
    /\ lastOp' = "load"
    /\ UNCHANGED <<variant, kbEntries, kbLoaded, last, prev, replyVars>>

\* await fetch('knowledge_base.json') settles: a response (whose ok flag
\* only part_002 looks at) or a rejection
FetchSettled(outcome, now) ==
    /\ loadPhase = "fetching"
    /\ IF outcome = "rejected" \/ (outcome = "notOk" /\ variant = "part_002")
       THEN LoadFailed /\ AfterLoad(now)
       ELSE /\ loadPhase' = "parsing"
            /\ UNCHANGED <<kbEntries, kbLoaded, chats, activeChatId, storage,
                           clock, display>>
    /\ lastOp' = "load"
    /\ UNCHANGED <<variant, last, prev, replyVars>>

\* await response.json() rejects: the body is not JSON
JsonRejected(now) ==
    /\ loadPhase = "parsing"
    /\ LoadFailed
    /\ AfterLoad(now)
    /\ lastOp' = "load"
    /\ UNCHANGED <<variant, last, prev, replyVars>>

\* await response.json() resolves with data; data.entries throws on null
JsonResolved(data, now) ==
    /\ loadPhase = "parsing"
    /\ IF data.json = "null" THEN LoadFailed ELSE LoadSucceeded(data)
    /\ AfterLoad(now)
    /\ lastOp' = "load"
    /\ UNCHANGED <<variant, last, prev, replyVars>>

\* mutant: the answer to the latest message is cached and served again
\* whatever the knowledge base has become
findBestMatch_Cached(userMessage) ==
    IF last # NoCall /\ last.userMessage = userMessage THEN last.result
    ELSE IF variant \in TokenVariants
    THEN TokensTable[userMessage, kbEntries, kbLoaded].result
    ELSE IF variant = "part_001"
    THEN Table001[userMessage, kbEntries, kbLoaded].result
    ELSE Table002[userMessage, kbEntries, kbLoaded].result

\* findBestMatch(userMessage) of the page's script, on the globals
findBestMatch(userMessage) ==
    IF variant \in TokenVariants
    THEN TokensTable[userMessage, kbEntries, kbLoaded].result
    ELSE IF variant = "part_001"
    THEN Table001[userMessage, kbEntries, kbLoaded].result
    ELSE Table002[userMessage, kbEntries, kbLoaded].result

\* the locals best and bestScore at the end of the loop of findBestMatch
BestOf(userMessage) ==
    IF variant \in TokenVariants
    THEN TokensTable[userMessage, kbEntries, kbLoaded].loop
    ELSE IF variant = "part_001"
    THEN Table001[userMessage, kbEntries, kbLoaded].loop
    ELSE Table002[userMessage, kbEntries, kbLoaded].loop

\* mutant: the call sorts kbEntries in place (here: reverses it)
CallFindBestMatch_Reorders(userMessage) ==
    /\ last' = [userMessage |-> userMessage,
                kbEntries |-> kbEntries,
                kbLoaded |-> kbLoaded,
                loop |-> BestOf(userMessage),
                result |-> findBestMatch(userMessage)]
    /\ prev' \in {prev, last}
    /\ lastOp' = "findBestMatch"
    /\ kbEntries' = [i \in 1..Len(kbEntries) |-> kbEntries[Len(kbEntries) + 1 - i]]
    /\ UNCHANGED <<variant, loadPhase, kbLoaded, chats, activeChatId, storage,
                   clock, replyVars, display>>

\* one call of findBestMatch; the call is recorded in last, and prev keeps
\* either what it held or the call before this one
CallFindBestMatch(userMessage) ==
    /\ last' = [userMessage |-> userMessage,
                kbEntries |-> kbEntries,
                kbLoaded |-> kbLoaded,
                loop |-> BestOf(userMessage),
                result |-> findBestMatch(userMessage)]
    /\ prev' \in {prev, last}
    /\ lastOp' = "findBestMatch"
    /\ UNCHANGED <<variant, loadPhase, kbEntries, kbLoaded, chats,
                   activeChatId, storage, clock, replyVars, display>>

Next ==
    \/ \E now \in 1..MaxTime : StartPage(now)
    \/ \E outcome \in {"ok", "notOk", "rejected"}, now \in 1..MaxTime :
          FetchSettled(outcome, now)
    \/ \E now \in 1..MaxTime : JsonRejected(now)
    \/ \E data \in Documents, now \in 1..MaxTime : JsonResolved(data, now)
    \/ \E userMessage \in Messages : CallFindBestMatch(userMessage)

Spec == Init /\ [][Next]_vars

\* the pages with the weighted and the substring matcher, on the example
\* knowledge bases
InitExamples == Init /\ variant \in {"part_001", "part_002"}

NextExamples ==
    \/ \E now \in 1..MaxTime : StartPage(now)
    \/ \E outcome \in {"ok", "notOk", "rejected"}, now \in 1..MaxTime :
          FetchSettled(outcome, now)
    \/ \E now \in 1..MaxTime : JsonRejected(now)
    \/ \E data \in ExampleDocuments, now \in 1..MaxTime : JsonResolved(data, now)
    \/ \E userMessage \in ExampleMessages : CallFindBestMatch(userMessage)

SpecExamples == InitExamples /\ [][NextExamples]_vars

-----------------------------------------------------------------------------
(* The chats of src/scripts.js: tabs, messages and the reply timers.  A     *)
(* handler that does not call findBestMatch leaves last without a call.    *)

MaxClock == 2       \* the values Date.now() takes
MaxSends == 3       \* the messages processMessage accepts in one behaviour

\* chats[id] is truthy; chats[null] is not
HasChat(cs, id) == id # 0 /\ id \in ChatIds(cs)

\* chats[activeChatId].push(m)
PushMessage(cs, id, m) ==
    [i \in 1..Len(cs) |->
        IF cs[i].id = id
        THEN [f \in DOMAIN cs[i] |->
                 IF f = "msgs" THEN Append(cs[i].msgs, m) ELSE cs[i][f]]
        ELSE cs[i]]

\* addMessage(text, isUser) with save = true: the chats it leaves
addMessage(cs, active, text, isUser) ==
    IF HasChat(cs, active)
    THEN PushMessage(cs, active, [text |-> text, user |-> isUser, isWelcome |-> FALSE])
    ELSE cs

\* ... and the storage it leaves
StorageAfterAdd(cs, active, text, isUser, st) ==
    IF HasChat(cs, active)
    THEN saveToStorage(addMessage(cs, active, text, isUser), active, st)
    ELSE st

defaultResponse ==
    <<"I specialize in Twin Health, diabetes reversal, and metabolic health. Please ask a question related to these topics, and I'll be happy to help you!">>

\* findBestMatch(msg) || defaultResponse()
ResponseOf(result) == IF result = Null THEN defaultResponse ELSE result.text

\* the messages typed into the input box
TypedMessages == {mBlank, qShort, qTwinLower}

\* the documents knowledge_base.json holds while the chats are explored
ChatDocuments == {[json |-> "object", entries |-> <<eFaq>>]}

createNewChat(now) ==
    /\ now >= clock
    /\ clock' = now
    /\ chats' = NewChat(chats, now)
    /\ activeChatId' = now
    /\ storage' = saveToStorage(NewChat(chats, now), now, storage)
    /\ display' = Rendered(NewChat(chats, now), now)
    /\ lastOp' = "handler"
    /\ last' = NoCall
    /\ UNCHANGED <<variant, loadPhase, kbEntries, kbLoaded, prev, replyVars>>

switchToChat(chatId) ==
    /\ IF chatId \in ChatIds(chats)
       THEN /\ activeChatId' = chatId
            /\ storage' = saveToStorage(chats, chatId, storage)
            /\ display' = Rendered(chats, chatId)
       ELSE UNCHANGED <<activeChatId, storage, display>>
    /\ lastOp' = "handler"
    /\ last' = NoCall
    /\ UNCHANGED <<variant, loadPhase, kbEntries, kbLoaded, chats, prev,
                   clock, replyVars>>

\* delete chats[activeChatId]
WithoutChat(cs, id) == SelectSeq(cs, LAMBDA c : c.id # id)

\* mutant: the last remaining chat may be deleted too
deleteCurrentChat_LastToo(confirmed) ==
    /\ IF ~HasChat(chats, activeChatId) \/ ~confirmed
       THEN UNCHANGED <<chats, activeChatId, storage, display>>
       ELSE LET remaining == WithoutChat(chats, activeChatId)
                first == IF remaining = <<>> THEN 0 ELSE remaining[1].id
            IN  /\ chats' = remaining
                /\ activeChatId' = first
                /\ storage' = saveToStorage(remaining, first, storage)
                /\ display' = Rendered(remaining, first)
    /\ lastOp' = "handler"
    /\ last' = NoCall
    /\ UNCHANGED <<variant, loadPhase, kbEntries, kbLoaded, prev, clock,
                   replyVars>>

\* confirmed: the answer to confirm("Are you sure ...")
deleteCurrentChat(confirmed) ==
    /\ IF Len(chats) <= 1 \/ ~HasChat(chats, activeChatId) \/ ~confirmed
       THEN UNCHANGED <<chats, activeChatId, storage, display>>
       ELSE LET remaining == WithoutChat(chats, activeChatId)
            IN  /\ chats' = remaining
                /\ activeChatId' = remaining[1].id
                /\ storage' = saveToStorage(remaining, remaining[1].id, storage)
                /\ display' = Rendered(remaining, remaining[1].id)
    /\ lastOp' = "handler"
    /\ last' = NoCall
    /\ UNCHANGED <<variant, loadPhase, kbEntries, kbLoaded, prev, clock,
                   replyVars>>

\* chats[activeChatId].name = newName
Renamed(cs, id, newName) ==
    [i \in 1..Len(cs) |->
        IF cs[i].id = id
        THEN [id |-> cs[i].id, msgs |-> cs[i].msgs, name |-> newName]
        ELSE cs[i]]

\* renameCurrentChat, up to the blur of the tab button that runs saveName;
\* text is the content of the edited button
saveName(text) ==
    /\ HasChat(chats, activeChatId)
    /\ chats' = IF trim(text) # <<>>
                THEN Renamed(chats, activeChatId, trim(text))
                ELSE chats
    /\ storage' = saveToStorage(chats', activeChatId, storage)
    /\ lastOp' = "handler"
    /\ last' = NoCall
    /\ UNCHANGED <<variant, loadPhase, kbEntries, kbLoaded, activeChatId,
                   prev, clock, replyVars, display>>

\* chatMessages.insertBefore(msg, typingIndicator): addMessage shows the
\* message whether or not it saves it
ShowMessage(shown, text, isUser) == Append(shown, [text |-> text, user |-> isUser])

\* processMessage(msg) when chats, localStorage and #chatMessages hold cs,
\* st and shown: the user message is added and the reply timer set;
\* sentTo remembers the chat that took the user message (0: none)
ProcessMessageFrom(cs, st, shown, msg) ==
    IF ~Truthy(msg) \/ trim(msg) = <<>>
    THEN /\ chats' = cs
         /\ storage' = st
         /\ display' = shown
         /\ UNCHANGED <<timers, sends>>
    ELSE /\ sends < MaxSends
         /\ sends' = sends + 1
         /\ chats' = addMessage(cs, activeChatId, msg, TRUE)
         /\ storage' = StorageAfterAdd(cs, activeChatId, msg, TRUE, st)
         /\ display' = ShowMessage(shown, msg, TRUE)
         /\ timers' = Append(timers,
                [msg |-> msg,
                 sentTo |-> IF HasChat(cs, activeChatId)
                            THEN activeChatId ELSE 0])

processMessage(msg) == ProcessMessageFrom(chats, storage, display, msg)

\* window.sendMessage with text in the input box
sendMessage(text) ==
    /\ IF trim(text) = <<>>
       THEN UNCHANGED <<chats, storage, timers, sends, display>>
       ELSE processMessage(trim(text))
    /\ lastOp' = "handler"
    /\ last' = NoCall
    /\ UNCHANGED <<variant, loadPhase, kbEntries, kbLoaded, activeChatId,
                   prev, clock>>

\* mutant: the callback answers the message sent last, not its own
ReplyMessage_Latest == timers[Len(timers)].msg

\* the msg the callback of the first pending timer closes over
ReplyMessage == timers[1].msg

\* mutant: the callback stays scheduled after it has run, as with
\* setInterval
ReplyTimerFires_Repeats ==
    /\ timers # <<>>
    /\ last' = [userMessage |-> ReplyMessage,
                kbEntries |-> kbEntries,
                kbLoaded |-> kbLoaded,
                loop |-> BestOf(ReplyMessage),
                result |-> findBestMatch(ReplyMessage),
                msg |-> timers[1].msg,
                sentTo |-> timers[1].sentTo,
                storedIn |-> IF HasChat(chats, activeChatId)
                             THEN activeChatId ELSE 0,
                reply |-> ResponseOf(findBestMatch(ReplyMessage))]
    /\ chats' = addMessage(chats, activeChatId, last'.reply, FALSE)
    /\ storage' = StorageAfterAdd(chats, activeChatId, last'.reply, FALSE,
                                  storage)
    /\ display' = ShowMessage(display, last'.reply, FALSE)
    /\ lastOp' = "reply"
    /\ UNCHANGED <<variant, loadPhase, kbEntries, kbLoaded, activeChatId,
                   prev, clock, timers, sends>>

\* the callback of setTimeout(..., 800) runs: timers of equal delay run in
\* the order they were set.  last records the call of findBestMatch and,
\* with it, the reply: the message the timer was set for, the chat that
\* took that message, the chat that takes the reply, and the reply
ReplyTimerFires ==
    /\ timers # <<>>
    /\ last' = [userMessage |-> ReplyMessage,
                kbEntries |-> kbEntries,
                kbLoaded |-> kbLoaded,
                loop |-> BestOf(ReplyMessage),
                result |-> findBestMatch(ReplyMessage),
                msg |-> timers[1].msg,
                sentTo |-> timers[1].sentTo,
                storedIn |-> IF HasChat(chats, activeChatId)
                             THEN activeChatId ELSE 0,
                reply |-> ResponseOf(findBestMatch(ReplyMessage))]
    /\ chats' = addMessage(chats, activeChatId, last'.reply, FALSE)
    /\ storage' = StorageAfterAdd(chats, activeChatId, last'.reply, FALSE,
                                  storage)
    /\ display' = ShowMessage(display, last'.reply, FALSE)
    /\ timers' = Tail(timers)
    /\ lastOp' = "reply"
    /\ UNCHANGED <<variant, loadPhase, kbEntries, kbLoaded, activeChatId,
                   prev, clock, sends>>

\* messageDiv.remove(); prevMessage.remove(): the message at position k
\* and the one before it leave #chatMessages
WithoutPair(shown, k) ==
    [j \in 1..(Len(shown) - 2) |-> IF j < k - 1 THEN shown[j] ELSE shown[j + 2]]

\* chats[activeChatId].pop(); chats[activeChatId].pop()
PopTwo(cs, id) ==
    [i \in 1..Len(cs) |->
        IF cs[i].id = id
        THEN [f \in DOMAIN cs[i] |->
                 IF f = "msgs" THEN SubSeq(cs[i].msgs, 1, Len(cs[i].msgs) - 2)
                 ELSE cs[i][f]]
        ELSE cs[i]]

\* if (chats[activeChatId] && chats[activeChatId].length >= 2)
CanPop(cs, id) == HasChat(cs, id) /\ Len(MessagesOf(cs, id)) >= 2

\* window.regenerateText(button), the button being that of the bot message
\* at position k of #chatMessages
regenerateText(k) ==
    /\ k \in 1..Len(display)
    /\ ~display[k].user
    /\ IF k > 1 /\ display[k - 1].user
       THEN LET userQuery == trim(display[k - 1].text)
                popped == IF CanPop(chats, activeChatId)
                          THEN PopTwo(chats, activeChatId) ELSE chats
                saved == IF CanPop(chats, activeChatId)
                         THEN saveToStorage(popped, activeChatId, storage)
                         ELSE storage
            IN  ProcessMessageFrom(popped, saved, WithoutPair(display, k),
                                   userQuery)
       ELSE UNCHANGED <<chats, storage, timers, sends, display>>
    /\ lastOp' = "handler"
    /\ last' = NoCall
    /\ UNCHANGED <<variant, loadPhase, kbEntries, kbLoaded, activeChatId,
                   prev, clock>>

MaxShown == 5       \* the positions of #chatMessages a button is clicked at

InitChat == Init /\ variant = "scripts"

NextChat ==
    \/ \E now \in 1..MaxClock : StartPage(now)
    \/ \E outcome \in {"ok", "rejected"}, now \in 1..MaxClock :
          FetchSettled(outcome, now)
    \/ \E data \in ChatDocuments, now \in 1..MaxClock : JsonResolved(data, now)
    \/ \E now \in 1..MaxClock : createNewChat(now)
    \/ \E chatId \in 1..MaxClock : switchToChat(chatId)
    \/ \E confirmed \in BOOLEAN : deleteCurrentChat(confirmed)
    \/ \E text \in TypedMessages : sendMessage(text)
    \/ \E k \in 1..MaxShown : regenerateText(k)
    \/ ReplyTimerFires

SpecChat == InitChat /\ [][NextChat]_vars

\* a timer that has been set fires: the page stays open long enough
SpecChatFair == SpecChat /\ WF_vars(ReplyTimerFires)

\* the tabs on their own: chats are created, selected, renamed and deleted
NextTabs ==
    \/ \E now \in 1..MaxClock : StartPage(now)
    \/ \E outcome \in {"ok", "rejected"}, now \in 1..MaxClock :
          FetchSettled(outcome, now)
    \/ \E data \in ChatDocuments, now \in 1..MaxClock : JsonResolved(data, now)
    \/ \E now \in 1..MaxClock : createNewChat(now)
    \/ \E chatId \in 1..MaxClock : switchToChat(chatId)
    \/ \E confirmed \in BOOLEAN : deleteCurrentChat(confirmed)
    \/ \E text \in {<<>>, <<"D","i","e","t">>} : saveName(text)

SpecTabs == InitChat /\ [][NextTabs]_vars

\* calculateSimilarity called on its own, on the two texts that last holds
\* from the start
CallCalculateSimilarity ==
    /\ last' = [userText |-> last.userText, kbText |-> last.kbText,
                result |-> calculateSimilarity(last.userText, last.kbText)]
    /\ lastOp' = "calculateSimilarity"
    /\ UNCHANGED <<variant, loadPhase, kbEntries, kbLoaded, chats,
                   activeChatId, storage, prev, clock, replyVars, display>>

InitSimilarity ==
    /\ variant = "part_001"
    /\ loadPhase = "notStarted"
    /\ kbEntries = <<>>
    /\ kbLoaded = FALSE
    /\ chats = <<>>
    /\ activeChatId = 0
    /\ storage = EmptyStorage
    /\ lastOp = "none"
    /\ last \in {[userText |-> u, kbText |-> k] :
                    u \in SimilarityTexts, k \in SimilarityTexts}
    /\ prev = NoCall
    /\ clock = 0
    /\ timers = <<>>
    /\ sends = 0
    /\ display = <<>>

NextSimilarity == CallCalculateSimilarity

SpecSimilarity == InitSimilarity /\ [][NextSimilarity]_vars

-----------------------------------------------------------------------------
(* The page of src/unnamed/part_002: messages and their reply timers, each *)
(* with a random delay.  Time is counted in steps of 100 ms; a timer holds *)
(* the time left until it is due; seq is the number of the message it was  *)
(* set for and loaded the value of kbLoaded when it was set.               *)

defaultResponse002 ==
    <<"I appreciate your question, but this topic is currently outside my knowledge scope. I specialize in information about Twin Health, twin pregnancy, postpartum care, and newborn guidance. Would you like resources or to rephrase the question?">>

NotLoadedNotice002 ==
    <<"Knowledge base not loaded. Please ensure knowledge_base.json is in the same folder and you're serving the site from a web server (not file://).">>

\* 400 + Math.random() * 900: from 400 ms up to, not including, 1300 ms
MinDelay == 4
DelaySpread == 9

\* how many delays, spread evenly from the shortest to the longest, are
\* drawn from
DelayChoices == 2

Delays002 ==
    {MinDelay + ((k - 1) * (DelaySpread - 1)) \div (DelayChoices - 1) :
        k \in 1..DelayChoices}

\* window sendMessage with text in the input box; delay is the delay drawn
sendMessage002(text, delay) ==
    /\ IF trim(text) = <<>>
       THEN UNCHANGED <<timers, sends, display>>
       ELSE /\ sends < MaxSends
            /\ sends' = sends + 1
            /\ display' = ShowMessage(display, trim(text), TRUE)
            /\ timers' = Append(timers, [msg |-> trim(text), left |-> delay,
                                         seq |-> sends + 1,
                                         loaded |-> kbLoaded])
    /\ lastOp' = "handler"
    /\ UNCHANGED <<variant, loadPhase, kbEntries, kbLoaded, chats,
                   activeChatId, storage, last, prev, clock>>

\* 100 ms pass while no timer is due
Tick002 ==
    /\ timers # <<>>
    /\ \A i \in 1..Len(timers) : timers[i].left > 0
    /\ timers' = [i \in 1..Len(timers) |->
                     [timers[i] EXCEPT !.left = timers[i].left - 1]]
    /\ UNCHANGED <<variant, loadPhase, kbEntries, kbLoaded, chats,
                   activeChatId, storage, lastOp, last, prev, clock, sends,
                   display>>

\* findBestMatch(message) || defaultResponse()
Response002(result) == IF result = Null THEN defaultResponse002 ELSE result.text

\* mutant: the callback of timer i looks at kbLoaded as it was when the
\* message was sent
Reply002_LoadedWhenSent(i) ==
    IF ~timers[i].loaded THEN NotLoadedNotice002
    ELSE Response002(findBestMatch(timers[i].msg))

\* the body of the setTimeout callback of timer i: what it adds as the bot
\* message
Reply002(i) ==
    IF ~kbLoaded THEN NotLoadedNotice002
    ELSE Response002(findBestMatch(timers[i].msg))

\* timer i is the one that runs now: it is due, and of the timers that are
\* due it was set first
Due002(i) ==
    /\ timers[i].left = 0
    /\ \A j \in 1..(i - 1) : timers[j].left > 0

\* the callback of timer i runs; last records the reply, prev the reply
\* before it
Timer002Fires(i) ==
    /\ i \in 1..Len(timers)
    /\ Due002(i)
    /\ last' = [userMessage |-> timers[i].msg,
                kbEntries |-> kbEntries,
                kbLoaded |-> kbLoaded,
                loop |-> BestOf(timers[i].msg),
                result |-> findBestMatch(timers[i].msg),
                seq |-> timers[i].seq,
                loaded |-> timers[i].loaded,
                reply |-> Reply002(i)]
    /\ prev' = last
    /\ display' = ShowMessage(display, last'.reply, FALSE)
    /\ timers' = [j \in 1..(Len(timers) - 1) |->
                     IF j < i THEN timers[j] ELSE timers[j + 1]]
    /\ lastOp' = "reply"
    /\ UNCHANGED <<variant, loadPhase, kbEntries, kbLoaded, chats,
                   activeChatId, storage, clock, sends>>

InitSend002 == Init /\ variant = "part_002"

NextSend002 ==
    \/ \E now \in 1..MaxClock : StartPage(now)
    \/ \E outcome \in {"ok", "notOk", "rejected"}, now \in 1..MaxClock :
          FetchSettled(outcome, now)
    \/ \E now \in 1..MaxClock : JsonRejected(now)
    \/ \E data \in ChatDocuments, now \in 1..MaxClock : JsonResolved(data, now)
    \/ \E text \in TypedMessages, delay \in Delays002 : sendMessage002(text, delay)
    \/ Tick002
    \/ \E i \in 1..MaxSends : Timer002Fires(i)

SpecSend002 == InitSend002 /\ [][NextSend002]_vars

-----------------------------------------------------------------------------
(* The replies of src/unnamed/part_001: greetings, thanks and farewells    *)
(* are answered before the knowledge base is searched.                     *)

\* const greetings = [...]
greetings ==
    {<<"h","e","l","l","o">>, <<"h","i">>, <<"h","i","i">>, <<"h","e","y">>,
     <<"g","o","o","d"," ","m","o","r","n","i","n","g">>,
     <<"g","o","o","d"," ","a","f","t","e","r","n","o","o","n">>,
     <<"g","o","o","d"," ","e","v","e","n","i","n","g">>,
     <<"h","o","w"," ","a","r","e"," ","y","o","u">>,
     <<"w","h","a","t","s"," ","u","p">>, <<"s","u","p">>}

\* const farewells = [...]
farewells ==
    {<<"b","y","e">>, <<"g","o","o","d","b","y","e">>,
     <<"s","e","e"," ","y","o","u">>, <<"c","y","a">>,
     <<"f","a","r","e","w","e","l","l">>,
     <<"t","h","a","t"," ","i","s"," ","a","l","l">>,
     <<"t","h","a","t","s"," ","a","l","l">>,
     <<"t","h","a","n","k","s"," ","a","n","d"," ","b","y","e">>,
     <<"t","h","a","n","k"," ","y","o","u"," ","b","y","e">>,
     <<"i","m"," ","d","o","n","e">>,
     <<"t","a","l","k"," ","t","o"," ","y","o","u"," ","l","a","t","e","r">>}

\* const thanks = [...]
thanks ==
    {<<"t","h","a","n","k"," ","y","o","u">>, <<"t","h","a","n","k","s">>,
     <<"a","p","p","r","e","c","i","a","t","e"," ","i","t">>,
     <<"t","h","x">>}

\* String.prototype.startsWith
startsWith(s, prefix) ==
    Len(s) >= Len(prefix) /\ SubSeq(s, 1, Len(prefix)) = prefix

\* greetings.some(g => normalized === g || normalized.startsWith(g + ' '))
isGreeting(text) ==
    \E g \in greetings :
        normalizeText(text) = g \/ startsWith(normalizeText(text), g \o <<" ">>)

\* farewells.some(f => normalized.includes(f))
isEnding(text) == \E f \in farewells : includes(normalizeText(text), f)

\* thanks.some(t => normalized.includes(t))
isThanking(text) == \E t \in thanks : includes(normalizeText(text), t)

GreetingReply001 ==
    <<"Hello! How can I help you today with your Twin Health journey?">>

ThanksReply001 ==
    <<"You're very welcome! I'm happy to help. Feel free to reach out anytime you have more questions about your health journey.">>

FarewellReply001 ==
    <<"Goodbye! Feel free to come back anytime if you have more questions about Twin Health. Have a great day!">>

\* `${kbMatch.answer}\n\n<em>Source: ${kbMatch.source}</em>`, or the
\* default response when kbMatch is null
KbReply001(kbMatch) ==
    IF kbMatch = Null THEN defaultResponse
    ELSE Interpolate(kbMatch.answer) \o <<"\n", "\n", "<em>Source: ">>
            \o Interpolate(kbMatch.source) \o <<"</em>">>

\* mutant: farewells are looked for before thanks
BotResponse001_FarewellFirst(userQuery) ==
    IF isGreeting(userQuery)
    THEN [consulted |-> FALSE, reply |-> GreetingReply001]
    ELSE IF isEnding(userQuery)
    THEN [consulted |-> FALSE, reply |-> FarewellReply001]
    ELSE IF isThanking(userQuery)
    THEN [consulted |-> FALSE, reply |-> ThanksReply001]
    ELSE [consulted |-> TRUE, result |-> findBestMatch(userQuery),
          reply |-> KbReply001(findBestMatch(userQuery))]

\* the body of the setTimeout callback of processMessage: botResponse, and
\* whether findBestMatch was called for it
BotResponse001(userQuery) ==
    IF isGreeting(userQuery)
    THEN [consulted |-> FALSE, reply |-> GreetingReply001]
    ELSE IF isThanking(userQuery)
    THEN [consulted |-> FALSE, reply |-> ThanksReply001]
    ELSE IF isEnding(userQuery)
    THEN [consulted |-> FALSE, reply |-> FarewellReply001]
    ELSE [consulted |-> TRUE, result |-> findBestMatch(userQuery),
          reply |-> KbReply001(findBestMatch(userQuery))]

mHi == <<"h","i">>    \* "hi"
mHiThanks == <<"H","i",","," ","t","h","a","n","k","s","!">>    \* "Hi, thanks!"
mThanksBye == <<"t","h","a","n","k","s",","," ","b","y","e">>    \* "thanks, bye"
mBye == <<"G","o","o","d","b","y","e",".">>    \* "Goodbye."

\* the messages typed into the input box of part_001: greetings, thanks and
\* farewells, alone and mixed, and messages that are none of these
TypedMessages001 ==
    {mBlank, mHi, mHiThanks, mThanksBye, mBye, mHigh, qShort, qTwinLower}

\* processMessage(msg): chatMessages and userInput are set by initializeApp
processMessage001(msg) ==
    IF ~Truthy(msg) \/ trim(msg) = <<>>
    THEN UNCHANGED <<chats, storage, timers, sends, display>>
    ELSE /\ sends < MaxSends
         /\ sends' = sends + 1
         /\ chats' = addMessage(chats, activeChatId, trim(msg), TRUE)
         /\ storage' = StorageAfterAdd(chats, activeChatId, trim(msg), TRUE,
                                       storage)
         /\ display' = ShowMessage(display, trim(msg), TRUE)
         /\ timers' = Append(timers, [msg |-> trim(msg)])

\* window.sendMessage of part_001 with text in the input box; it returns
\* at once while userInput is not set
sendMessage001(text) ==
    /\ IF loadPhase = "notStarted" \/ trim(text) = <<>>
       THEN UNCHANGED <<chats, storage, timers, sends, display>>
       ELSE processMessage001(trim(text))
    /\ lastOp' = "handler"
    /\ UNCHANGED <<variant, loadPhase, kbEntries, kbLoaded, activeChatId,
                   last, prev, clock>>

\* the callback of setTimeout(..., 800) of part_001 runs; last records the
\* message, the reply and, when findBestMatch was called, the call
Reply001Fires ==
    /\ timers # <<>>
    /\ last' = [msg |-> timers[1].msg,
                kbEntries |-> kbEntries,
                kbLoaded |-> kbLoaded,
                response |-> BotResponse001(timers[1].msg)]
    /\ chats' = addMessage(chats, activeChatId, last'.response.reply, FALSE)
    /\ storage' = StorageAfterAdd(chats, activeChatId, last'.response.reply,
                                  FALSE, storage)
    /\ display' = ShowMessage(display, last'.response.reply, FALSE)
    /\ timers' = Tail(timers)
    /\ lastOp' = "reply"
    /\ UNCHANGED <<variant, loadPhase, kbEntries, kbLoaded, activeChatId,
                   prev, clock, sends>>

InitReply001 == Init /\ variant = "part_001"

NextReply001 ==
    \/ \E now \in 1..MaxTime : StartPage(now)
    \/ \E outcome \in {"ok", "rejected"}, now \in 1..MaxTime :
          FetchSettled(outcome, now)
    \/ \E data \in ChatDocuments, now \in 1..MaxTime : JsonResolved(data, now)
    \/ \E text \in TypedMessages001 : sendMessage001(text)
    \/ Reply001Fires

SpecReply001 == InitReply001 /\ [][NextReply001]_vars

\* the text functions of the weighted matcher, called on their own on a
\* text that last holds from the start
CallNormalizeText ==
    /\ last' = [text |-> last.text, result |-> normalizeText(last.text)]
    /\ lastOp' = "normalizeText"
    /\ UNCHANGED <<variant, loadPhase, kbEntries, kbLoaded, chats,
                   activeChatId, storage, prev, clock, replyVars, display>>

CallExtractKeywords ==
    /\ last' = [text |-> last.text, result |-> extractKeywords(last.text)]
    /\ lastOp' = "extractKeywords"
    /\ UNCHANGED <<variant, loadPhase, kbEntries, kbLoaded, chats,
                   activeChatId, storage, prev, clock, replyVars, display>>

InitText ==
    /\ variant = "part_001"
    /\ loadPhase = "notStarted"
    /\ kbEntries = <<>>
    /\ kbLoaded = FALSE
    /\ chats = <<>>
    /\ activeChatId = 0
    /\ storage = EmptyStorage
    /\ lastOp = "none"
    /\ last \in {[text |-> text] : text \in Texts}
    /\ prev = NoCall
    /\ clock = 0
    /\ timers = <<>>
    /\ sends = 0
    /\ display = <<>>

NextText == CallNormalizeText \/ CallExtractKeywords

SpecText == InitText /\ [][NextText]_vars

-----------------------------------------------------------------------------
(* Vocabulary of the properties                                            *)

Called == last # NoCall

\* the message of the latest call and the knowledge base it ran on
Msg == last.userMessage
Kb == last.kbEntries

Matched == Called /\ last.result # Null /\ last.result # TypeError

\* the entry the latest call selected
Winner == Kb[last.loop.best]

\* the message gets past the guard of the weighted matcher
Valid001(userMessage) == Truthy(userMessage) /\ Len(trim(userMessage)) >= 2

\* the scores of every entry of the pool for every message, term by term
Parts001 ==
    Tabulated([m \in Messages, e \in EntryPool |->
        [question |-> calculateSimilarity(m, Field(e, "question")),
         answer |-> calculateSimilarity(m, Field(e, "answer")),
         tags |-> TagsScore001(m, e),
         category |-> CategoryScore001(m, e),
         score |-> EntryScore001(m, e)]])

PartsTokens ==
    Tabulated([m \in Messages, e \in EntryPool |->
        [score |-> EntryScoreTokens(tokenize(m), e)]])

Parts002 ==
    Tabulated([m \in Messages, e \in EntryPool |->
        [score |-> EntryScore002(Message002(m), e)]])

Score001(i) == Parts001[Msg, Kb[i]].score

\* entry i is the first entry of Kb that attains the highest score
FirstMax001(i) ==
    /\ \A j \in 1..(i - 1) : FracGT(Score001(i), Score001(j))
    /\ \A j \in (i + 1)..Len(Kb) : FracGE(Score001(i), Score001(j))

ScoreTokens(i) == PartsTokens[Msg, Kb[i]].score

-----------------------------------------------------------------------------
(* C1: in every variant findBestMatch returns null when the user message   *)
(* is empty or only whitespace, or kbEntries is empty, or kbLoaded is      *)
(* false                                                                   *)
C1_NullWithoutInput ==
    (Called /\ (trim(Msg) = <<>> \/ Len(Kb) = 0 \/ ~last.kbLoaded))
        => last.result = Null

\* a whitespace-only message on a loaded, non-empty knowledge base
C1_Witness ==
    /\ Called
    /\ variant = "part_001"
    /\ Msg = mBlank
    /\ last.kbLoaded
    /\ Len(Kb) > 0
    /\ last.result = Null

(* C2 as claimed: a message equal to an entry's question returns that      *)
(* entry's answer (weighted matcher)                                       *)
C2_ExactQuestionReturnsEntry ==
    (Called /\ variant = "part_001" /\ last.kbLoaded)
        => \A i \in 1..Len(Kb) :
              Msg = Field(Kb[i], "question")
                  => Matched /\ last.result.answer = Field(Kb[i], "answer")

(* C2 amended: a message equal to an entry's question and at least two     *)
(* characters long after trimming returns a match scoring at least 500,    *)
(* and that match is the entry's answer when the entry is the first one    *)
(* with the highest score                                                  *)
C2_ExactQuestionMatches ==
    (Called /\ variant = "part_001" /\ last.kbLoaded)
        => \A i \in 1..Len(Kb) :
              (Msg = Field(Kb[i], "question") /\ Valid001(Msg))
                  => /\ Matched
                     /\ FracGE(last.result.score, Whole(500))
                     /\ FirstMax001(i)
                            => last.result.answer = Field(Kb[i], "answer")

\* the question of the second entry is asked and the second entry is returned
C2_Witness ==
    /\ Called
    /\ variant = "part_001"
    /\ last.kbLoaded
    /\ Len(Kb) = 2
    /\ Msg = Kb[2].question
    /\ Kb[1].answer # Kb[2].answer
    /\ Matched
    /\ last.result.answer = Kb[2].answer

(* C3: on a loaded knowledge base and a valid message the weighted matcher *)
(* returns a match exactly when some entry scores at least 50              *)
C3_ThresholdDecides ==
    (Called /\ variant = "part_001" /\ last.kbLoaded /\ Valid001(Msg))
        => (last.result # Null
               <=> \E i \in 1..Len(Kb) : FracGE(Score001(i), Whole(50)))

\* a best score of exactly 50 is accepted
C3_Witness ==
    /\ Called
    /\ variant = "part_001"
    /\ last.loop.bestScore = Whole(50)
    /\ Matched

\* a positive best score below 50 is rejected
C3_WitnessBelow ==
    /\ Called
    /\ variant = "part_001"
    /\ last.kbLoaded
    /\ FracGT(last.loop.bestScore, Whole(0))
    /\ last.result = Null

\* the score of entry i of Kb in the page's variant, as a fraction
ScoreOf(i) ==
    IF variant \in TokenVariants THEN Whole(ScoreTokens(i))
    ELSE IF variant = "part_001" THEN Score001(i)
    ELSE Whole(Parts002[Msg, Kb[i]].score)

\* the result carries the answer of entry e
CarriesAnswer(result, e) ==
    IF variant = "part_001" THEN result.answer = Field(e, "answer")
    ELSE LET a == Interpolate(Field(e, "answer"))
         IN  Len(result.text) >= Len(a) /\ SubSeq(result.text, 1, Len(a)) = a

(* C4: the returned entry has the highest score and every entry before it  *)
(* scores strictly less: among entries with the same highest score the     *)
(* first is returned                                                       *)
C4_FirstWinsTies ==
    Matched
        => /\ last.loop.best \in 1..Len(Kb)
           /\ \A j \in 1..Len(Kb) : FracGE(ScoreOf(last.loop.best), ScoreOf(j))
           /\ \A j \in 1..(last.loop.best - 1) :
                  FracGT(ScoreOf(last.loop.best), ScoreOf(j))
           /\ CarriesAnswer(last.result, Winner)

\* two entries with different answers tie and the first is returned
C4_Witness ==
    /\ Matched
    /\ variant = "part_001"
    /\ Len(Kb) = 2
    /\ ScoreOf(1) = ScoreOf(2)
    /\ Kb[1].answer # Kb[2].answer
    /\ last.result.answer = Kb[1].answer

C6_CallChangesNothing ==
    [][lastOp' = "findBestMatch"
          => UNCHANGED <<kbEntries, kbLoaded, chats, activeChatId>>]_vars

\* a call that matched, with a chat open
C6_Witness ==
    /\ lastOp = "findBestMatch"
    /\ Matched
    /\ Len(chats) > 0
    /\ activeChatId # 0
    /\ kbEntries = last.kbEntries

(* C7: a match of the weighted matcher carries the winning entry's answer   *)
(* unchanged, and the entry's source when that is non-empty, else the      *)
(* label 'Twin Health Knowledge Base'                                      *)
C7_AnswerAndSource ==
    (Matched /\ variant = "part_001")
        => /\ last.result.answer = Field(Winner, "answer")
           /\ last.result.source =
                  IF "source" \in DOMAIN Winner /\ Winner.source # <<>>
                  THEN Winner.source
                  ELSE <<"T","w","i","n"," ","H","e","a","l","t","h"," ",
                         "K","n","o","w","l","e","d","g","e"," ","B","a","s","e">>

\* the winning entry has an empty source and the match carries the label
C7_Witness ==
    /\ Matched
    /\ variant = "part_001"
    /\ "source" \in DOMAIN Winner
    /\ Winner.source = <<>>
    /\ last.result.source = DefaultSource001
    /\ last.result.answer = Winner.answer

\* the tags one may add to an entry
TagPool == {<<"t","w","i","n">>, <<"t","w","i","n"," ","c","a","r","e">>}

\* the entry with one more tag
AddTag(e, t) ==
    [f \in DOMAIN e \cup {"tags"} |->
        IF f = "tags"
        THEN (IF "tags" \in DOMAIN e THEN Append(e.tags, t) ELSE <<t>>)
        ELSE e[f]]

SharesToken(t, userMessage) ==
    \E i \in 1..Len(tokenize(t)) :
        arrayIncludes(tokenize(userMessage), tokenize(t)[i])

(* C8 as claimed: in the token-weight matcher, adding to an entry a tag     *)
(* that shares a token with the message strictly increases the entry's     *)
(* score                                                                   *)
C8_TagIncreasesScore ==
    (Called /\ variant \in TokenVariants)
        => \A i \in 1..Len(Kb) : \A t \in TagPool :
              SharesToken(t, Msg)
                  => EntryScoreTokens(tokenize(Msg), AddTag(Kb[i], t))
                         > ScoreTokens(i)

(* C9: in the weighted matcher an entry without tags, category or source   *)
(* raises no error, absent tags and an absent category add nothing, and    *)
(* an entry without both scores five times its question similarity plus    *)
(* its answer similarity                                                   *)
C9_AbsentFieldsAddNothing ==
    (Called /\ variant = "part_001")
        => /\ last.result # TypeError
           /\ \A i \in 1..Len(Kb) :
                 /\ "tags" \notin DOMAIN Kb[i]
                        => Parts001[Msg, Kb[i]].tags = Whole(0)
                 /\ "category" \notin DOMAIN Kb[i]
                        => Parts001[Msg, Kb[i]].category = Whole(0)
                 /\ ("tags" \notin DOMAIN Kb[i] /\ "category" \notin DOMAIN Kb[i])
                        => Score001(i) =
                             FracAdd(FracTimes(Parts001[Msg, Kb[i]].question, 5),
                                     Parts001[Msg, Kb[i]].answer)

\* an entry with no tags, no category and no source is matched
C9_Witness ==
    /\ Matched
    /\ variant = "part_001"
    /\ DOMAIN Winner = {"question", "answer"}
    /\ last.result.source = DefaultSource001

(* C10: kbLoaded is true only once the load has succeeded; while it has    *)
(* not, findBestMatch returns null for every message; a failed load sets   *)
(* kbLoaded to false and leaves kbEntries as it was                        *)
C10_NoMatchBeforeLoad ==
    /\ [](kbLoaded => loadPhase = "succeeded")
    /\ [](loadPhase # "succeeded"
             => \A m \in Messages : findBestMatch(m) = Null)
    /\ [][loadPhase' = "failed" => (~kbLoaded' /\ kbEntries' = kbEntries)]_vars

\* a call made after the load failed
C10_Witness ==
    /\ loadPhase = "failed"
    /\ lastOp = "findBestMatch"
    /\ Called
    /\ Truthy(Msg)
    /\ last.result = Null

-----------------------------------------------------------------------------
(* The worked examples                                                     *)

\* the terms of the substring matcher's score for every example message and
\* entry, in tenths
ExampleParts002 ==
    Tabulated([m \in ExampleMessages, e \in ExamplePool |->
        [contained |-> Contained002(Message002(m), e),
         beforeSource |-> ScoreBeforeSource002(Message002(m), e),
         score |-> EntryScore002(Message002(m), e)]])

(* C11 as claimed: in the substring matcher, an entry whose score before   *)
(* the source bonus is strictly below another entry's is not the entry     *)
(* findBestMatch returns, whatever the order of the two entries            *)
C11_SourceBonusNeverFlips ==
    (Matched /\ variant = "part_002")
        => \A a, b \in 1..Len(Kb) :
              ExampleParts002[Msg, Kb[a]].beforeSource
                    > ExampleParts002[Msg, Kb[b]].beforeSource
                  => last.loop.best # b

(* C13 as claimed: in the substring matcher an entry gets the containment  *)
(* bonus whenever the lower-cased, trimmed message is a substring of the   *)
(* entry's lower-cased question, or the question is a substring of the     *)
(* message                                                                 *)
C13_ContainmentEitherWay ==
    (Called /\ variant = "part_002" /\ last.kbLoaded
        /\ Message002(Msg) # <<>>)
        => \A i \in 1..Len(Kb) :
              (\/ includes(Question002(Kb[i]), Message002(Msg))
               \/ includes(Message002(Msg), Question002(Kb[i])))
                  => ExampleParts002[Msg, Kb[i]].contained

(* C16: in the weighted matcher, on the knowledge base of the one entry    *)
(* about Twin Health, "What is Twin Health?" returns the entry's answer    *)
(* with source "FAQ" and "pizza recipe" returns null                       *)
C16_TwinHealthExample ==
    (Called /\ variant = "part_001" /\ last.kbLoaded /\ Kb = <<eTwinHealth>>)
        => /\ Msg = qTwinHealth
                  => /\ Matched
                     /\ last.result.answer = aTwinHealth
                     /\ last.result.source = <<"F","A","Q">>
           /\ Msg = mPizza => last.result = Null

\* both queries were asked of that knowledge base
C16_Witness ==
    /\ Matched
    /\ variant = "part_001"
    /\ Kb = <<eTwinHealth>>
    /\ Msg = qTwinHealth
    /\ last.result.answer = aTwinHealth
    /\ prev # NoCall
    /\ prev.userMessage = mPizza
    /\ prev.kbEntries = <<eTwinHealth>>
    /\ prev.kbLoaded
    /\ prev.result = Null

(* C17: in the substring matcher, on the knowledge base of the one entry   *)
(* about Twin Health, the query "twin health" scores at least the          *)
(* threshold 1.0 and findBestMatch returns a result                        *)
C17_PartialQueryMatches ==
    (Called /\ variant = "part_002" /\ last.kbLoaded /\ Kb = <<eNoAnswer>>
        /\ Msg = tTwinHealth)
        => /\ last.loop.best = 1
           /\ last.loop.bestScore >= Threshold002
           /\ last.result # Null

\* the query is asked and scores 5 + 2 + 0.7 + 0.7 + 0.1
C17_Witness ==
    /\ Called
    /\ variant = "part_002"
    /\ last.kbLoaded
    /\ Kb = <<eNoAnswer>>
    /\ Msg = tTwinHealth
    /\ last.loop.bestScore = 85
    /\ last.result # Null

(* C20 as claimed: in the weighted matcher a message whose normalised form *)
(* is the empty string returns null for every knowledge base               *)
C20_EmptyNormalizedReturnsNull ==
    (Called /\ variant = "part_001" /\ normalizeText(Msg) = <<>>)
        => last.result = Null

-----------------------------------------------------------------------------
(* The chats                                                               *)

(* C12: in scripts.js the reply a timer produces is findBestMatch of the   *)
(* message the timer was set for, on kbEntries and kbLoaded as they are    *)
(* when the timer fires, or the default response when that is null,        *)
(* whatever other messages are pending and whatever the chats hold         *)
C12_ReplyOfOwnMessage ==
    (Called /\ variant = "scripts")
        => last.reply =
              ResponseOf(TokensTable[last.msg, last.kbEntries, last.kbLoaded].result)

\* a matched reply is produced while the timer of a different message is
\* pending, with two chats open
C12_Witness ==
    /\ lastOp = "reply"
    /\ Called
    /\ timers # <<>>
    /\ timers[1].msg # last.msg
    /\ last.result # Null
    /\ last.reply = last.result.text
    /\ Len(chats) = 2

(* C18 as claimed: in scripts.js the reply to a user message is stored in  *)
(* the chat in which the user message was stored                           *)
C18_ReplyInSameChat ==
    (Called /\ variant = "scripts" /\ last.sentTo # 0)
        => last.storedIn = last.sentTo

(* C19 as claimed: whenever saveToStorage has written localStorage, a      *)
(* loadFromStorage into the initial globals gives the chats (ids, messages *)
(* and names) and the activeChatId of that moment                          *)
C19_StorageRoundTrip ==
    [][storage' # storage
          => /\ LoadedChats(<<>>, storage') = chats'
             /\ LoadedActive(<<>>, 0, storage') = activeChatId']_vars

\* the maximal runs of characters of [a-z0-9_] in s from position i on,
\* word being the run that position i continues
RECURSIVE WordsFrom(_, _, _)
WordsFrom(s, i, word) ==
    LET done == IF word = <<>> THEN <<>> ELSE <<word>>
    IN  IF i > Len(s) THEN done
        ELSE IF s[i] \in LowerLetters \cup Digits \cup {"_"}
        THEN WordsFrom(s, i + 1, Append(word, s[i]))
        ELSE done \o WordsFrom(s, i + 1, <<>>)

\* the words of the lower-cased text; none for undefined
Words(text) ==
    IF text = Undefined THEN <<>> ELSE WordsFrom(toLowerCase(text), 1, <<>>)

RECURSIVE JoinWords(_)
JoinWords(ws) ==
    IF Len(ws) = 0 THEN <<>>
    ELSE IF Len(ws) = 1 THEN ws[1]
    ELSE ws[1] \o <<" ">> \o JoinWords(Tail(ws))

(* C14: normalizeText returns the words of the lower-cased input (the      *)
(* maximal runs of a-z, 0-9 and _) joined by single spaces: no leading,    *)
(* trailing or consecutive space, no upper-case or punctuation character;  *)
(* undefined and the empty string give the empty string                    *)
C14_NormalizedForm ==
    lastOp = "normalizeText"
        => LET out == last.result
           IN  /\ out = JoinWords(Words(last.text))
               /\ \A i \in 1..Len(out) :
                      out[i] \in LowerLetters \cup Digits \cup {"_", " "}
               /\ out # <<>> => (out[1] # " " /\ out[Len(out)] # " ")
               /\ \A i \in 1..(Len(out) - 1) :
                      ~(out[i] = " " /\ out[i+1] = " ")
               /\ (last.text = Undefined \/ last.text = <<>>) => out = <<>>

\* an input with an upper-case letter and a punctuation character,
\* normalised to two words
C14_Witness ==
    /\ lastOp = "normalizeText"
    /\ last.text # Undefined
    /\ \E i \in 1..Len(last.text) : last.text[i] \in UpperLetters
    /\ \E i \in 1..Len(last.text) : last.text[i] \in {"?", "-"}
    /\ Len(Words(last.text)) = 2
    /\ last.result = JoinWords(Words(last.text))

(* C15: extractKeywords returns the words of the normalised text, in order *)
(* and with duplicates, that are longer than two characters and are not    *)
(* stop words                                                              *)
C15_KeywordsFiltered ==
    lastOp = "extractKeywords"
        => /\ last.result =
                  SelectSeq(Words(last.text),
                            LAMBDA w : Len(w) > 2 /\ w \notin stopWords)
           /\ \A i \in 1..Len(last.result) :
                  Len(last.result[i]) > 2 /\ last.result[i] \notin stopWords

\* a repeated keyword is returned twice; a stop word and a short word are
\* dropped
C15_Witness ==
    /\ lastOp = "extractKeywords"
    /\ \/ /\ Len(last.result) = 2
          /\ last.result[1] = last.result[2]
       \/ /\ Len(last.result) = 1
          /\ Len(Words(last.text)) = 3
          /\ \E i \in 1..3 : Words(last.text)[i] \in stopWords
          /\ \E i \in 1..3 : Len(Words(last.text)[i]) = 2

-----------------------------------------------------------------------------
(* The similarity of two texts                                             *)

(* C21 as claimed: in the weighted matcher, for a message that does not    *)
(* normalize to the empty string, calculateSimilarity is 0 against the     *)
(* question or the answer of an entry when that field is absent or         *)
(* normalizes to the empty string                                          *)
C21_EmptyTextScoresZero ==
    (Called /\ variant = "part_001" /\ normalizeText(Msg) # <<>>)
        => \A i \in 1..Len(Kb) : \A f \in {"question", "answer"} :
              normalizeText(Field(Kb[i], f)) = <<>>
                  => calculateSimilarity(Msg, Field(Kb[i], f)) = Whole(0)

-----------------------------------------------------------------------------
(* The messages shown and the messages stored                              *)

\* the load handler has run to its end
Initialised == loadPhase \in {"succeeded", "failed"}

(* C22 as claimed: in scripts.js, once the page is initialised, the stored *)
(* messages of the active chat are the messages shown, in the same order,  *)
(* after every sequence of sends, replies and regenerations                *)
C22_StoredEqualsShown ==
    (variant = "scripts" /\ Initialised)
        => display = Rendered(chats, activeChatId)

-----------------------------------------------------------------------------
(* One reply for every message                                             *)

\* how many messages with the given user flag the chats hold, the welcome
\* messages apart
RECURSIVE StoredIn(_, _, _)
StoredIn(cs, i, user) ==
    IF i > Len(cs) THEN 0
    ELSE Len(SelectSeq(cs[i].msgs, LAMBDA m : m.user = user /\ ~m.isWelcome))
            + StoredIn(cs, i + 1, user)

Stored(cs, user) == StoredIn(cs, 1, user)

LastStored(cs, id) == MessagesOf(cs, id)[Len(MessagesOf(cs, id))]

\* the messages answered so far
Answered == sends - Len(timers)

(* C24: in scripts.js, once the page is initialised, a step that accepts a *)
(* message stores that message as the last message of the active chat and  *)
(* sets one timer for it; the stored bot messages grow only by the firing  *)
(* of the oldest pending timer, by exactly one message, the reply to that  *)
(* timer's message; and when timers fire, again and again no timer is     *)
(* pending, so that every accepted message is eventually answered          *)
C24_ExactlyOneReply ==
    /\ [][(variant = "scripts" /\ Initialised /\ sends' # sends)
             => /\ sends' = sends + 1
                /\ Len(timers') = Len(timers) + 1
                /\ LastStored(chats', activeChatId) =
                      [text |-> timers'[Len(timers')].msg, user |-> TRUE,
                       isWelcome |-> FALSE]]_vars
    /\ [][(variant = "scripts" /\ Initialised /\ timers' # timers
              /\ sends' = sends)
             => /\ timers # <<>>
                /\ timers' = Tail(timers)
                /\ Stored(chats', FALSE) = Stored(chats, FALSE) + 1
                /\ Stored(chats', TRUE) = Stored(chats, TRUE)
                /\ LastStored(chats', activeChatId) =
                      [text |-> ResponseOf(TokensTable[timers[1].msg, kbEntries,
                                                       kbLoaded].result),
                       user |-> FALSE, isWelcome |-> FALSE]]_vars
    /\ [][(variant = "scripts" /\ Initialised
              /\ Stored(chats', FALSE) > Stored(chats, FALSE))
             => (timers # <<>> /\ timers' = Tail(timers))]_vars
    /\ [][sends' >= sends /\ Answered' >= Answered]_vars
    /\ []<>(Answered = sends)

\* the third accepted message has been answered, each of the three with
\* its own stored reply
C24_Witness ==
    /\ variant = "scripts"
    /\ Initialised
    /\ lastOp = "reply"
    /\ sends = 3
    /\ timers = <<>>
    /\ Len(chats) = 1
    /\ Stored(chats, FALSE) = 3
    /\ Stored(chats, TRUE) = 3

-----------------------------------------------------------------------------
(* The replies of the substring matcher's page                             *)

\* a reply has been added, and one before it
Replied == last # NoCall /\ "reply" \in DOMAIN last
RepliedTwice == Replied /\ prev # NoCall /\ "reply" \in DOMAIN prev

(* C25 as claimed: in part_002 the replies are added in the order in which *)
(* the messages they answer were sent: a reply answers a later message     *)
(* than the reply added before it                                          *)
C25_RepliesInSendOrder ==
    (variant = "part_002" /\ RepliedTwice) => last.seq > prev.seq

(* C29: in part_002 the reply a timer adds is the 'Knowledge base not      *)
(* loaded' notice exactly when kbLoaded is false as the timer fires,       *)
(* whatever it was when the message was sent; when kbLoaded is true the    *)
(* reply is the answer findBestMatch gives for the message, or the default *)
(* response when it gives none                                             *)
C29_NoticeIffNotLoaded ==
    (variant = "part_002" /\ Replied)
        => /\ (last.reply = NotLoadedNotice002) <=> ~last.kbLoaded
           /\ last.kbLoaded
                 => last.reply =
                       Response002(Table002[last.userMessage, last.kbEntries,
                                            TRUE].result)

\* a message sent before the knowledge base was loaded is answered, once
\* it is loaded, with a matched answer
C29_Witness ==
    /\ variant = "part_002"
    /\ Replied
    /\ ~last.loaded
    /\ last.kbLoaded
    /\ last.result # Null
    /\ last.reply = last.result.text

\* a message is answered with the notice after the load has failed
C29_WitnessNotice ==
    /\ variant = "part_002"
    /\ Replied
    /\ loadPhase = "failed"
    /\ last.reply = NotLoadedNotice002

-----------------------------------------------------------------------------
(* The similarity score                                                    *)

\* text a occurs in text b as a run of consecutive characters
OccursIn(a, b) ==
    \E i \in 1..(Len(b) + 1) :
        /\ i + Len(a) - 1 <= Len(b)
        /\ \A j \in 1..Len(a) : b[i + j - 1] = a[j]

\* one of the two normalized texts of the latest call contains the other
Containment ==
    \/ OccursIn(normalizeText(last.userText), normalizeText(last.kbText))
    \/ OccursIn(normalizeText(last.kbText), normalizeText(last.userText))

\* the keywords of the user text, and how many of them, counted as often
\* as they occur, are keywords of the knowledge-base text
UserKeywords == extractKeywords(last.userText)

SharedKeywords ==
    Cardinality({i \in 1..Len(UserKeywords) :
                    UserKeywords[i] \in Range(extractKeywords(last.kbText))})

(* C26: calculateSimilarity of the weighted matcher returns 100 exactly    *)
(* when one normalized text contains the other; otherwise 0 when the user  *)
(* text has no keywords, and else 80 times the share of the user's         *)
(* keywords that are keywords of the knowledge-base text, which lies       *)
(* between 0 and 80                                                        *)
C26_SimilarityScore ==
    lastOp = "calculateSimilarity"
        => /\ (last.result = Whole(100)) <=> Containment
           /\ (~Containment /\ Len(UserKeywords) = 0) => last.result = Whole(0)
           /\ (~Containment /\ Len(UserKeywords) > 0)
                 => last.result.num * Len(UserKeywords)
                       = 80 * SharedKeywords * last.result.den
           /\ ~Containment
                 => /\ last.result.den > 0
                    /\ last.result.num >= 0
                    /\ last.result.num <= 80 * last.result.den

\* two of three keywords of the user text are keywords of the other text,
\* and neither text contains the other
C26_Witness ==
    /\ lastOp = "calculateSimilarity"
    /\ ~Containment
    /\ Len(UserKeywords) = 3
    /\ SharedKeywords = 2
    /\ last.result = Frac(160, 3)

-----------------------------------------------------------------------------
(* The token weights                                                       *)

\* what one token of the message adds to the score of entry e
TokenWeight(t, e) ==
    (IF t \in Range(tokenize(Field(e, "question"))) THEN 3 ELSE 0)
        + (IF t \in Range(tokenize(Field(e, "answer"))) THEN 1 ELSE 0)
        + (IF t \in Range(TagTokens(e)) THEN 2 ELSE 0)
        + (IF t \in Range(tokenize(OrEmpty(Field(e, "category")))) THEN 2 ELSE 0)

RECURSIVE TokenWeights(_, _, _)
TokenWeights(ts, i, e) ==
    IF i > Len(ts) THEN 0 ELSE TokenWeight(ts[i], e) + TokenWeights(ts, i + 1, e)

\* the latest call ran the loop of the token-weight matcher
ScoredTokens == Called /\ variant \in TokenVariants /\ Truthy(Msg)

(* C27: in the token-weight matcher the score of an entry is the sum, over *)
(* the tokens of the message, each as often as it occurs, of 3 for a token *)
(* of the question, 1 for a token of the answer, 2 for a token of the tags *)
(* and 2 for a token of the category; bestScore is the highest of these    *)
(* sums, or 0; a token of the question adds at least 3 and a token of the  *)
(* answer alone adds 1                                                     *)
C27_ScoreIsSumOfWeights ==
    ScoredTokens
        => /\ \A i \in 1..Len(Kb) :
                 /\ ScoreTokens(i) = TokenWeights(tokenize(Msg), 1, Kb[i])
                 /\ last.loop.bestScore >= ScoreTokens(i)
                 /\ \A k \in 1..Len(tokenize(Msg)) :
                       LET t == tokenize(Msg)[k]
                       IN  /\ t \in Range(tokenize(Field(Kb[i], "question")))
                              => TokenWeight(t, Kb[i]) >= 3
                           /\ (TokenWeight(t, Kb[i]) = 1)
                              <=> /\ t \in Range(tokenize(Field(Kb[i], "answer")))
                                  /\ t \notin Range(tokenize(Field(Kb[i], "question")))
                                  /\ t \notin Range(TagTokens(Kb[i]))
                                  /\ t \notin Range(tokenize(OrEmpty(Field(Kb[i], "category"))))
           /\ \/ last.loop.bestScore = 0 /\ last.loop.best = 0
              \/ /\ last.loop.best \in 1..Len(Kb)
                 /\ last.loop.bestScore = ScoreTokens(last.loop.best)

\* the message "twin twin" is scored against an entry with twin in its
\* question, its answer and its tags: twice 3 + 1 + 2
C27_Witness ==
    /\ ScoredTokens
    /\ kbLoaded
    /\ Msg = mTwinTwice
    /\ Len(Kb) >= 1
    /\ Kb[1] = eFaq
    /\ last.loop.bestScore = 12

-----------------------------------------------------------------------------
(* The priority of the replies                                             *)

\* the latest step added the reply of the weighted matcher's page
Replied001 ==
    variant = "part_001" /\ last # NoCall /\ "response" \in DOMAIN last

\* what the three classifiers say of every message that can be typed
Classified001 ==
    Tabulated([m \in {trim(t) : t \in TypedMessages001} |->
        [greeting |-> isGreeting(m), thanking |-> isThanking(m),
         ending |-> isEnding(m)]])

(* C28: in part_001 the reply to a message is the greeting reply when      *)
(* isGreeting holds of it; else the thanks reply when isThanking holds;    *)
(* else the farewell reply when isEnding holds; in these three cases       *)
(* findBestMatch is not called; else findBestMatch is called and the reply *)
(* is its answer followed by its source, or the default response when it   *)
(* returns null                                                            *)
C28_ReplyPriority ==
    Replied001
        => LET m == last.msg
               r == last.response
               c == Classified001[last.msg]
           IN  /\ c.greeting
                     => (r.reply = GreetingReply001 /\ ~r.consulted)
               /\ (~c.greeting /\ c.thanking)
                     => (r.reply = ThanksReply001 /\ ~r.consulted)
               /\ (~c.greeting /\ ~c.thanking /\ c.ending)
                     => (r.reply = FarewellReply001 /\ ~r.consulted)
               /\ (~c.greeting /\ ~c.thanking /\ ~c.ending)
                     => /\ r.consulted
                        /\ LET kbMatch == Table001[m, last.kbEntries,
                                                   last.kbLoaded].result
                           IN  IF kbMatch = Null THEN r.reply = defaultResponse
                               ELSE r.reply =
                                       Interpolate(kbMatch.answer)
                                          \o <<"\n", "\n", "<em>Source: ">>
                                          \o Interpolate(kbMatch.source)
                                          \o <<"</em>">>

\* a message that both thanks and takes leave gets the thanks reply
C28_Witness ==
    /\ Replied001
    /\ last.msg = mThanksBye
    /\ Classified001[last.msg].thanking
    /\ Classified001[last.msg].ending
    /\ last.response.reply = ThanksReply001

\* a message that is none of the three is answered from the knowledge base
C28_WitnessMatched ==
    /\ Replied001
    /\ last.msg = qTwinLower
    /\ last.response.consulted
    /\ last.response.result # Null
    /\ last.response.reply # defaultResponse

=============================================================================
